---- MODULE Spec2Model ----
(***************************************************************************)
(* RentHub API (src/main.py, src/schemas.py): the request handlers over    *)
(* the document store, with the store accesses of create_property and      *)
(* create_rating as separate steps so that concurrent requests interleave. *)
(*                                                                         *)
(* Strings are sequences of one-character strings, so that lower(),        *)
(* upper(), replace(" ", ""), slicing and f-string concatenation are       *)
(* computed.  A float is a reduced fraction <<numerator, denominator>>.    *)
(* None is 0 (document ids start at 1).                                    *)
(***************************************************************************)
EXTENDS Naturals, Sequences, FiniteSets

\* ---------------------------------------------------------------- bounds
\* Worker threads serving requests at the same time.
MaxProcs == 2
\* Property records / Rating records / Room records the workload creates.
MaxProps == 2
MaxRatings == 2
MaxRooms == 1
\* Property records of the workload that only creates properties, one at a
\* time.
MaxSeqProps == 4
\* Records of all collections together in the workload that serves every
\* handler, counted before a request that adds to them.
MaxRecords == 3
\* The attempt cap of the uniqueness probe that the design asks for, at the
\* scale of the model (the design's example value is 1000).
ProbeCap == 2

Procs == 1..MaxProcs
None == 0

VARIABLES
  property,      \* db["property"]: set of Property documents
  room,          \* db["room"]
  rating,        \* db["rating"]
  authuser,      \* db["authuser"]
  rental,        \* db["rental"]
  payment,       \* db["payment"]
  emaillog,      \* db["emaillog"]
  maintenancerequest, \* db["maintenancerequest"]
  pc,            \* per worker: where its request stands
  payload,       \* per worker: the parsed request body (PropertyIn / RatingIn)
  code,          \* per worker: ensure_unique_code's parameter
  final_code,    \* per worker: ensure_unique_code's final_code
  i,             \* per worker: ensure_unique_code's i
  scores,        \* per worker: create_rating's scores list
  agg_error,     \* per worker: create_rating's except branch was taken
  resp           \* per worker: outcome of the last request

store == <<property, room, rating>>
aux == <<authuser, rental, payment, emaillog, maintenancerequest>>
locals == <<code, final_code, i, scores, agg_error>>
vars == <<property, room, rating, authuser, rental, payment, emaillog,
          maintenancerequest, pc, payload, code, final_code, i, scores,
          agg_error, resp>>

\* ------------------------------------------------------------- strings
CasePairs ==
  { <<"m", "M">>, <<"s", "S">>, <<"e", "E">>, <<"l", "L">>, <<"i", "I">>,
    <<"p", "P">>, <<"r", "R">> }

LowerChar(c) ==
  IF \E pr \in CasePairs : pr[2] = c
  THEN (CHOOSE pr \in CasePairs : pr[2] = c)[1]
  ELSE c

UpperChar(c) ==
  IF \E pr \in CasePairs : pr[1] = c
  THEN (CHOOSE pr \in CasePairs : pr[1] = c)[2]
  ELSE c

Lower(s) == [k \in 1..Len(s) |-> LowerChar(s[k])]
Upper(s) == [k \in 1..Len(s) |-> UpperChar(s[k])]
IsNotSpace(c) == c # " "
StripSpaces(s) == SelectSeq(s, IsNotSpace)
\* s[:n]
Take(s, n) == SubSeq(s, 1, IF Len(s) < n THEN Len(s) ELSE n)
Dash == <<"-">>

Digits == <<"0", "1", "2", "3", "4", "5", "6", "7", "8", "9">>
RECURSIVE Str(_)
\* str(n) of a non-negative integer
Str(n) == IF n < 10 THEN <<Digits[n + 1]>>
          ELSE Str(n \div 10) \o <<Digits[(n % 10) + 1]>>

\* hashlib.sha1(base.encode()).hexdigest()[:6].upper(): a function of the
\* canonical string alone; equal inputs give equal digests.
Sha1Prefix(base) == <<"#">> \o base

\* ------------------------------------------------------------- floats
RECURSIVE GCD(_, _)
GCD(a, b) == IF b = 0 THEN a ELSE GCD(b, a % b)
\* a / b as a float
Div(a, b) == LET g == GCD(a, b) IN <<a \div g, b \div g>>
Zero == <<0, 1>>
RECURSIVE Sum(_)
Sum(s) == IF s = <<>> THEN 0 ELSE Head(s) + Sum(Tail(s))

\* ------------------------------------------------------------ the store
MinId(docs) == CHOOSE d \in docs : \A e \in docs : d._id <= e._id
\* Documents in natural (insertion) order.
RECURSIVE InOrder(_)
InOrder(docs) ==
  IF docs = {} THEN <<>>
  ELSE LET d == MinId(docs) IN <<d>> \o InOrder(docs \ {d})

\* database.create_document: insert the model's fields as one document under
\* a fresh _id.
NewId(coll) == Cardinality(coll) + 1
create_document(coll, doc) == coll \cup {doc}

\* collection.find_one({field: value}) is not None
Exists(coll, field, value) ==
  \E d \in coll : field \in DOMAIN d /\ d[field] = value

\* collection.update_one({"_id": {"$exists": True}, field: value},
\*                       {"$set": {"rating_avg": avg, "rating_count": n}})
update_one(coll, field, value, avg, n) ==
  LET hits == {d \in coll : field \in DOMAIN d /\ d[field] = value}
  IN IF hits = {} THEN coll
     ELSE LET d == MinId(hits)
          IN (coll \ {d}) \cup
               {[d EXCEPT !.rating_avg = avg, !.rating_count = n]}


\* ------------------------------------------------------ request bodies
HouseNumber == <<"4", "2">>
City == <<"S", "p", "r", "i">>
State == <<"I", "L">>
\* "M S" and "ms" canonicalise to the same string, "Elm" to another.
Streets == { <<"M", " ", "S">>, <<"m", "s">>, <<"E", "l", "m">> }
\* Scores a client may send: below, inside and above [1,5].
ScoreInputs == {0, 3, 5, 6}
SubjectIds == {None, 1}

\* JSON bodies of POST /api/properties and POST /api/rooms; clients may add
\* rating_avg and rating_count to them.
\* What a client may put in rating_avg and rating_count.
ClientAggregates == {<<Zero, 0>>, <<<<5, 1>>, 7>>}
PropertyBodies ==
  {[owner_id |-> "o1", street |-> s, rating_avg |-> a[1],
    rating_count |-> a[2]] :
     s \in Streets, a \in ClientAggregates}
RoomBodies ==
  {[property_id |-> 1, rating_avg |-> a[1], rating_count |-> a[2]] :
     a \in ClientAggregates}
RatingBodies ==
  [room_id : SubjectIds, property_id : SubjectIds, score : ScoreInputs]

NoPayload ==
  [op |-> "none", owner_id |-> "", street |-> <<>>, room_id |-> None,
   property_id |-> None, score |-> 0]

\* PropertyIn / RoomIn / RatingIn: the declared fields of the body; pydantic
\* ignores the others.
PropertyIn(body) ==
  [NoPayload EXCEPT !.op = "property", !.owner_id = body.owner_id,
                    !.street = body.street]
RoomInAllowExtra(body) == body
RoomIn(body) == [property_id |-> body.property_id]
RatingIn(body) ==
  [NoPayload EXCEPT !.op = "rating", !.room_id = body.room_id,
                    !.property_id = body.property_id, !.score = body.score]

\* schemas.Property and schemas.Room: the fields, and the defaults of those a
\* caller may leave out.
PropertyFields ==
  {"owner_id", "street", "unique_code", "rating_avg", "rating_count"}
RoomFields == {"property_id", "rating_avg", "rating_count"}
Defaults == [rating_avg |-> Zero, rating_count |-> 0]
\* Model(**kwargs): each field from kwargs, else its default.
Construct(fields, kwargs) ==
  [f \in fields |-> IF f \in DOMAIN kwargs THEN kwargs[f] ELSE Defaults[f]]
\* Property(**payload.model_dump(), unique_code=code)
Property(pl, c) ==
  Construct(PropertyFields,
            [owner_id |-> pl.owner_id, street |-> pl.street, unique_code |-> c])
\* Room(**payload.model_dump())
Room(pl) == Construct(RoomFields, pl)
\* schemas.Rating: score = Field(ge=1, le=5)
RatingValidNoUpper(pl) == pl.score >= 1
RatingValid(pl) == pl.score >= 1 /\ pl.score <= 5
Rating(pl) ==
  [room_id |-> pl.room_id, property_id |-> pl.property_id, score |-> pl.score]

\* A document: the model's fields and the _id the store assigns.
WithId(fields, id) ==
  [f \in DOMAIN fields \cup {"_id"} |-> IF f = "_id" THEN id ELSE fields[f]]
Insert(coll, fields) == create_document(coll, WithId(fields, NewId(coll)))

\* -------------------------------------------------- the code generator
generate_property_code(house_number, street, city, state) ==
  LET base == StripSpaces(Lower(house_number \o Dash \o street \o Dash \o
                                city \o Dash \o state))
      digest == Sha1Prefix(base)
  IN Upper(Take(city, 3)) \o Dash \o Upper(Take(state, 2)) \o Dash \o
     house_number \o Dash \o digest

CandidateFromFinal(c, fc, k) == fc \o Dash \o Str(k)
\* f"{code}-{i}"
Candidate(c, fc, k) == c \o Dash \o Str(k)

\* ------------------------------------------------------------- workers
Free(p) == pc[p] \in {"idle", "done"}
ResetLocals(p) ==
  /\ code' = [code EXCEPT ![p] = <<>>]
  /\ final_code' = [final_code EXCEPT ![p] = <<>>]
  /\ i' = [i EXCEPT ![p] = 0]
  /\ scores' = [scores EXCEPT ![p] = <<>>]
\* The request of worker p ends with outcome r.
Finish(p, r) ==
  /\ pc' = [pc EXCEPT ![p] = "done"]
  /\ resp' = [resp EXCEPT ![p] = r]
  /\ ResetLocals(p)

Init ==
  /\ property = {} /\ room = {} /\ rating = {}
  /\ authuser = {} /\ rental = {} /\ payment = {} /\ emaillog = {}
  /\ maintenancerequest = {}
  /\ pc = [p \in Procs |-> "idle"]
  /\ payload = [p \in Procs |-> NoPayload]
  /\ code = [p \in Procs |-> <<>>]
  /\ final_code = [p \in Procs |-> <<>>]
  /\ i = [p \in Procs |-> 0]
  /\ scores = [p \in Procs |-> <<>>]
  /\ agg_error = [p \in Procs |-> FALSE]
  /\ resp = [p \in Procs |-> "none"]

\* ------------------------------------------------------ create_property
\* Lines 134 and 39-40: the code is generated and the probe starts.
BeginCreateProperty(p, body) ==
  /\ Free(p)
  /\ payload' = [payload EXCEPT ![p] = PropertyIn(body)]
  /\ LET c == generate_property_code(HouseNumber, body.street, City, State)
     IN /\ code' = [code EXCEPT ![p] = c]
        /\ final_code' = [final_code EXCEPT ![p] = c]
  /\ i' = [i EXCEPT ![p] = 1]
  /\ pc' = [pc EXCEPT ![p] = "cp_probe"]
  /\ resp' = [resp EXCEPT ![p] = "none"]
  /\ agg_error' = [agg_error EXCEPT ![p] = FALSE]
  /\ UNCHANGED <<store, aux, scores>>

\* ensure_unique_code, lines 41-43: one evaluation of the while condition, a
\* find_one, and the loop body when it finds a record.
Probe(p) ==
  /\ pc[p] = "cp_probe"
  /\ \/ /\ Exists(property, "unique_code", final_code[p])
        /\ final_code' =
             [final_code EXCEPT ![p] = Candidate(code[p], final_code[p], i[p])]
        /\ i' = [i EXCEPT ![p] = i[p] + 1]
        /\ UNCHANGED <<pc, resp, code, scores>>
     \/ /\ ~Exists(property, "unique_code", final_code[p])
        /\ pc' = [pc EXCEPT ![p] = "cp_insert"]
        /\ UNCHANGED <<resp, code, final_code, i, scores>>
     \/ \* the store is unreachable: find_one raises, the request fails
        /\ Finish(p, "StoreError")
  /\ UNCHANGED <<store, aux, payload, agg_error>>

InsertPropertyPartial(p) ==
  /\ pc[p] = "cp_insert"
  /\ property' = Insert(property, Property(payload[p], final_code[p]))
  /\ \/ Finish(p, "ok")
     \/ Finish(p, "StoreError")
  /\ UNCHANGED <<room, rating, aux, payload, agg_error>>

\* Lines 136-138: the insert, and the response.
InsertProperty(p) ==
  /\ pc[p] = "cp_insert"
  /\ \/ /\ property' = Insert(property, Property(payload[p], final_code[p]))
        /\ Finish(p, "ok")
     \/ \* the store is unreachable: create_document raises
        /\ Finish(p, "StoreError")
        /\ UNCHANGED property
  /\ UNCHANGED <<room, rating, aux, payload, agg_error>>

\* ---------------------------------------------------------- create_room
\* Lines 159-166: the find_one's result is not used; the room is inserted
\* whatever property_id says.
create_room(body) ==
  /\ room' = Insert(room, Room(RoomIn(body)))
  /\ UNCHANGED <<property, rating, aux, pc, payload, locals, resp>>

\* -------------------------------------------------------- create_rating
\* Lines 275-280 and 283.
Key(pl) == IF pl.room_id # None THEN "room_id" ELSE "property_id"
Coll(pl) == IF pl.room_id # None THEN "room" ELSE "property"
FiltValue(pl) == IF pl.room_id # None THEN pl.room_id ELSE pl.property_id
\* key.replace("_id", "id")
ReplaceUnderscoreId(key) ==
  CASE key = "room_id" -> "roomid"
    [] key = "property_id" -> "propertyid"

\* Lines 270-273: the checks, and the insert of the Rating record.
BeginCreateRating(p, body) ==
  /\ Free(p)
  /\ payload' = [payload EXCEPT ![p] = RatingIn(body)]
  /\ agg_error' = [agg_error EXCEPT ![p] = FALSE]
  /\ LET pl == RatingIn(body)
     IN \/ /\ pl.room_id = None /\ pl.property_id = None
           /\ Finish(p, "HTTP400")
           /\ UNCHANGED rating
        \/ /\ ~(pl.room_id = None /\ pl.property_id = None)
           /\ ~RatingValid(pl)
           /\ Finish(p, "ValidationError")
           /\ UNCHANGED rating
        \/ /\ ~(pl.room_id = None /\ pl.property_id = None)
           /\ RatingValid(pl)
           /\ rating' = Insert(rating, Rating(pl))
           /\ pc' = [pc EXCEPT ![p] = "rt_read"]
           /\ resp' = [resp EXCEPT ![p] = "none"]
           /\ ResetLocals(p)
        \/ \* the store is unreachable: create_document raises
           /\ ~(pl.room_id = None /\ pl.property_id = None)
           /\ RatingValid(pl)
           /\ Finish(p, "StoreError")
           /\ UNCHANGED rating
  /\ UNCHANGED <<property, room, aux>>

\* Line 284: scores of the ratings get_documents("rating", filt) returns.
ScoresOf(docs) == [k \in 1..Len(docs) |-> docs[k].score]
ReadRatings(p) ==
  /\ pc[p] = "rt_read"
  /\ \/ LET pl == payload[p]
            found == {d \in rating : d[Key(pl)] = FiltValue(pl)}
            got == ScoresOf(InOrder(found))
        IN /\ scores' = [scores EXCEPT ![p] = got]
           /\ IF got # <<>>
              THEN /\ pc' = [pc EXCEPT ![p] = "rt_write"]
                   /\ UNCHANGED resp
              ELSE /\ pc' = [pc EXCEPT ![p] = "done"]
                   /\ resp' = [resp EXCEPT ![p] = "ok"]
           /\ UNCHANGED <<code, final_code, i, agg_error>>
     \/ \* get_documents raises: except Exception: pass, then line 290
        /\ agg_error' = [agg_error EXCEPT ![p] = TRUE]
        /\ Finish(p, "ok")
  /\ UNCHANGED <<store, aux, payload>>

\* Lines 286-287, then line 290.
WriteAggregate(p) ==
  /\ pc[p] = "rt_write"
  /\ \/ LET pl == payload[p]
            n == Len(scores[p])
            avg == Div(Sum(scores[p]), n)
            field == ReplaceUnderscoreId(Key(pl))
        IN /\ IF Coll(pl) = "room"
              THEN /\ room' = update_one(room, field, FiltValue(pl), avg, n)
                   /\ UNCHANGED property
              ELSE /\ property' =
                        update_one(property, field, FiltValue(pl), avg, n)
                   /\ UNCHANGED room
           /\ Finish(p, "ok")
           /\ UNCHANGED agg_error
     \/ \* update_one raises: except Exception: pass, then line 290
        /\ agg_error' = [agg_error EXCEPT ![p] = TRUE]
        /\ Finish(p, "ok")
        /\ UNCHANGED <<property, room>>
  /\ UNCHANGED <<rating, aux, payload>>

\* ------------------------------------------- the other write handlers
\* These run as one step each: none of them reads or writes what
\* create_property and create_rating work on, beyond inserting its own record.
RegisterBodies == [email : {"a@x"}, password : {"pw"}, role : {"owner", "admin"}]
RentalBodies ==
  [property_code :
     {generate_property_code(HouseNumber, <<"m", "s">>, City, State), <<"X">>},
   owner_id : {"o1", "o2"}, rent_day_of_month : {1, 29}]
PaymentBodies == [rental_id : {1}]
MaintBodies == [rental_id : {1}]

\* Lines 101-108.
register(body) ==
  /\ IF body.role \notin {"owner", "user"}
     THEN UNCHANGED authuser                      \* 400
     ELSE IF Exists(authuser, "email", body.email)
     THEN UNCHANGED authuser                      \* 409
     ELSE authuser' =
            Insert(authuser, [email |-> body.email, password |-> body.password,
                              role |-> body.role, is_active |-> TRUE])
  /\ UNCHANGED <<store, rental, payment, emaillog, maintenancerequest, pc,
                 payload, locals, resp>>

\* Lines 198-205; schemas.Rental: rent_day_of_month = Field(ge=1, le=28).
create_rental(body) ==
  /\ IF ~\E d \in property : /\ d.unique_code = body.property_code
                             /\ d.owner_id = body.owner_id
     THEN UNCHANGED rental                        \* 400
     ELSE IF ~(body.rent_day_of_month >= 1 /\ body.rent_day_of_month <= 28)
     THEN UNCHANGED rental                        \* ValidationError
     ELSE rental' =
            Insert(rental, [property_code |-> body.property_code,
                            owner_id |-> body.owner_id,
                            rent_day_of_month |-> body.rent_day_of_month,
                            status |-> "active"])
  /\ UNCHANGED <<store, authuser, payment, emaillog, maintenancerequest, pc,
                 payload, locals, resp>>

\* Lines 228-239 with send_email_stub (lines 47-53): the payment is inserted,
\* the email is logged unless that raises, and the first payment of the
\* collection is marked emailed unless that raises.
create_payment(body, email_ok, update_ok) ==
  LET inserted ==
        Insert(payment, [rental_id |-> body.rental_id, emailed |-> FALSE])
      first == MinId(inserted)
  IN /\ emaillog' =
          IF email_ok
          THEN Insert(emaillog, [subject |-> "Rent Receipt"])
          ELSE emaillog
     /\ payment' =
          IF update_ok
          THEN (inserted \ {first}) \cup {[first EXCEPT !.emailed = TRUE]}
          ELSE inserted
     /\ UNCHANGED <<store, authuser, rental, maintenancerequest, pc, payload,
                    locals, resp>>

\* Lines 300-303.
create_maintenance(body) ==
  /\ maintenancerequest' =
       Insert(maintenancerequest,
              [rental_id |-> body.rental_id, status |-> "open"])
  /\ UNCHANGED <<store, authuser, rental, payment, emaillog, pc, payload,
                 locals, resp>>

\* ------------------------------------------------------- the read handlers
\* login (115-119), list_properties (141-150), list_rooms (169-182),
\* owner_rentals and user_rentals (208-219), export_rentals (242-257),
\* list_maintenance (306-317): each reads the store and builds its response;
\* the "_id" assignments are on the returned copies.
ReadHandlers ==
  {"login", "list_properties", "list_rooms", "owner_rentals", "user_rentals",
   "export_rentals", "list_maintenance"}
read_only(handler) == handler \in ReadHandlers /\ UNCHANGED vars

\* -------------------------------------------------------- specifications
InFlight(op) == Cardinality({p \in Procs : ~Free(p) /\ payload[p].op = op})
Quiet == \A p \in Procs : Free(p)
\* Workload bounds: how many records the requests of a run may create.
MayCreateProperty(max) ==
  Cardinality(property) + InFlight("property") < max
MayCreateRating == Cardinality(rating) < MaxRatings
MayCreateRoom == Cardinality(room) < MaxRooms
\* The one-at-a-time workload is bounded by the records of all collections.
TotalRecords ==
  Cardinality(property) + Cardinality(room) + Cardinality(rating) +
  Cardinality(authuser) + Cardinality(rental) + Cardinality(payment) +
  Cardinality(emaillog) + Cardinality(maintenancerequest)
MayCreate == TotalRecords < MaxRecords

\* Concurrent property creations.
PropertyNext ==
  \/ \E p \in Procs, body \in PropertyBodies :
       MayCreateProperty(MaxProps) /\ BeginCreateProperty(p, body)
  \/ \E p \in Procs : Probe(p)
  \/ \E p \in Procs : InsertProperty(p)

\* Concurrent rating creations, with the rooms they rate.
RatingNext ==
  \/ \E body \in RoomBodies : MayCreateRoom /\ create_room(body)
  \/ \E p \in Procs, body \in RatingBodies :
       MayCreateRating /\ BeginCreateRating(p, body)
  \/ \E p \in Procs : ReadRatings(p)
  \/ \E p \in Procs : WriteAggregate(p)

\* The workers serving property, room and rating requests concurrently.
Next == PropertyNext \/ RatingNext

Spec == Init /\ [][Next]_vars
SpecProperty == Init /\ [][PropertyNext]_vars
SpecRating == Init /\ [][RatingNext]_vars

\* One worker creating properties one after the other.
ProbeNext ==
  \/ \E body \in PropertyBodies :
       MayCreateProperty(MaxSeqProps) /\ BeginCreateProperty(1, body)
  \/ Probe(1)
  \/ InsertProperty(1)

SpecProbe == Init /\ [][ProbeNext]_vars

\* Every handler, served by one worker: one request at a time.
SeqNext ==
  \/ \E body \in PropertyBodies : MayCreate /\ BeginCreateProperty(1, body)
  \/ Probe(1)
  \/ InsertProperty(1)
  \/ \E body \in RoomBodies : Quiet /\ MayCreate /\ create_room(body)
  \/ \E body \in RatingBodies : MayCreate /\ BeginCreateRating(1, body)
  \/ ReadRatings(1)
  \/ WriteAggregate(1)
  \/ \E body \in RegisterBodies : Quiet /\ MayCreate /\ register(body)
  \/ \E body \in RentalBodies : Quiet /\ MayCreate /\ create_rental(body)
  \/ \E body \in PaymentBodies, email_ok \in BOOLEAN, update_ok \in BOOLEAN :
       Quiet /\ MayCreate /\ create_payment(body, email_ok, update_ok)
  \/ \E body \in MaintBodies : Quiet /\ MayCreate /\ create_maintenance(body)
  \/ \E handler \in ReadHandlers : Quiet /\ read_only(handler)

SpecSeq == Init /\ [][SeqNext]_vars

\* ================================================================ claims
Codes == {d.unique_code : d \in property}
\* find_one calls the probe of worker p has made.
Attempts(p) ==
  CASE pc[p] = "cp_probe" -> i[p] - 1
    [] pc[p] = "cp_insert" -> i[p]
    [] OTHER -> 0
\* C-k as the design writes it.
Suffixed(c, k) == c \o <<"-">> \o Str(k)
InvalidInput == {"HTTP400", "ValidationError"}
\* The step is one of worker p's own.
StepOf(p) ==
  <<pc[p], payload[p], resp[p], i[p]>> # <<pc'[p], payload'[p], resp'[p], i'[p]>>

\* C1: no two persisted Property records share a unique_code, whatever the
\* interleaving of concurrent create_property requests.
C1_UniqueCodes ==
  \A d \in property, e \in property :
    d.unique_code = e.unique_code => d._id = e._id

\* C4: against a fixed store state the probe returns the code itself when it
\* is free, and otherwise code-k for the smallest k >= 1 that is free; the
\* result is never a code of the store.
C4_FirstFreeCandidate ==
  \A p \in Procs :
    pc[p] = "cp_insert" =>
      /\ final_code[p] \notin Codes
      /\ IF code[p] \notin Codes
         THEN final_code[p] = code[p]
         ELSE \E k \in 1..Cardinality(property) :
                /\ final_code[p] = Suffixed(code[p], k)
                /\ \A j \in 1..(k - 1) : Suffixed(code[p], j) \in Codes
\* With C, C-1 and C-2 present the probe has answered C-3.
C4_Witness ==
  \E p \in Procs :
    /\ pc[p] = "cp_insert"
    /\ {code[p], Suffixed(code[p], 1), Suffixed(code[p], 2)} \subseteq Codes
    /\ final_code[p] = Suffixed(code[p], 3)

\* C7: the probe makes at most ProbeCap attempts; a request that found every
\* candidate up to the cap taken fails instead of probing on.
C7_ProbeCapped == \A p \in Procs : Attempts(p) <= ProbeCap

\* C9: a create_property request that fails has failed with a store error and
\* none of its steps has changed the Property records: only the step that
\* completes a request successfully adds a record.
C9_FailedCreatePersistsNothing ==
  [][\A p \in Procs :
       (StepOf(p) /\ payload'[p].op = "property") =>
         /\ (pc'[p] = "done" /\ resp'[p] # "ok") => resp'[p] = "StoreError"
         /\ ~(pc'[p] = "done" /\ resp'[p] = "ok") => property' = property]_vars
\* A create_property request has failed on the store while a record exists.
C9_Witness ==
  \E p \in Procs :
    /\ pc[p] = "done" /\ payload[p].op = "property"
    /\ resp[p] = "StoreError" /\ property # {}

\* The Rating records that reference record r through field key, and what
\* rating_count and rating_avg of r must then be.
RatingsOf(r, key) == {d \in rating : d[key] = r._id}
MeanOf(docs) ==
  IF docs = {} THEN Zero ELSE Div(Sum(ScoresOf(InOrder(docs))), Cardinality(docs))
AggregateOk(r, key) ==
  /\ r.rating_count = Cardinality(RatingsOf(r, key))
  /\ r.rating_avg = MeanOf(RatingsOf(r, key))
\* The record a rating request rates, when it exists, has the right aggregate.
SubjectOk(pl) ==
  IF pl.room_id # None
  THEN \A r \in room : r._id = pl.room_id => AggregateOk(r, "room_id")
  ELSE \A r \in property :
         r._id = pl.property_id => AggregateOk(r, "property_id")

\* C2: once all concurrent create_rating requests have completed (none of
\* them having met a store error), every Room and Property has rating_count
\* equal to the number of its ratings and rating_avg equal to their mean.
C2_AggregateWhenQuiet ==
  (Quiet /\ \A p \in Procs : ~agg_error[p]) =>
    /\ \A r \in room : AggregateOk(r, "room_id")
    /\ \A r \in property : AggregateOk(r, "property_id")

\* C3: with one request at a time, the aggregate write that completes a
\* create_rating leaves the rated record with the count and the mean of the
\* ratings that reference it.
C3_AggregateAfterRating ==
  [][\A p \in Procs :
       (pc[p] = "rt_write" /\ pc'[p] = "done" /\ resp'[p] = "ok" /\
        ~agg_error'[p])
         => SubjectOk(payload[p])']_vars

\* C5: a create_rating request whose score is outside [1,5] ends at once with
\* an invalid-input error, and its step changes no Rating record and no
\* aggregate; no persisted Rating has such a score.
C5_InvalidScoreRejected ==
  [][/\ \A p \in Procs :
          (payload'[p].op = "rating" /\ payload'[p].score \notin 1..5) =>
            /\ pc'[p] = "done" /\ resp'[p] \in InvalidInput
            /\ StepOf(p) => UNCHANGED <<rating, room, property>>
     /\ \A d \in rating' : d.score \in 1..5]_vars
\* A request with score 6 has been refused while a Rating record exists.
C5_Witness ==
  \E p \in Procs :
    /\ payload[p].op = "rating" /\ payload[p].score = 6
    /\ pc[p] = "done" /\ resp[p] = "ValidationError"
    /\ rating # {}

\* C6: a create_rating request with both room_id and property_id set, like
\* one with neither, fails with an invalid-input error and persists nothing.
C6_ExactlyOneSubject ==
  /\ \A p \in Procs :
       (payload[p].op = "rating" /\
        (payload[p].room_id = None) = (payload[p].property_id = None)) =>
         pc[p] = "done" /\ resp[p] \in InvalidInput
  /\ \A d \in rating : (d.room_id = None) # (d.property_id = None)

\* C8: create_rating never answers success when the aggregate recomputation
\* of that request has raised.
C8_AggregateFailureSurfaced ==
  \A p \in Procs : (pc[p] = "done" /\ agg_error[p]) => resp[p] # "ok"

\* C10: a Room or Property record starts with rating_avg 0.0 and
\* rating_count 0 whatever the client sent, and no step other than the
\* aggregate write of create_rating changes these fields of an existing record.
StartsAtZero(before, after) ==
  \A d \in after :
    (~\E e \in before : e._id = d._id) =>
      d.rating_avg = Zero /\ d.rating_count = 0
AggregatesKept(before, after) ==
  \A e \in before :
    \E d \in after : /\ d._id = e._id
                     /\ d.rating_avg = e.rating_avg
                     /\ d.rating_count = e.rating_count
AggregateWriteStep == \E p \in Procs : pc[p] = "rt_write" /\ pc'[p] = "done"
C10_AggregatesOnlyRecomputed ==
  [][/\ StartsAtZero(property, property') /\ StartsAtZero(room, room')
     /\ ~AggregateWriteStep =>
          AggregatesKept(property, property') /\ AggregatesKept(room, room')]_vars
\* A property and a room exist and a payment has been recorded and marked
\* emailed.
C10_Witness ==
  /\ property # {} /\ room # {}
  /\ \E d \in payment : d.emailed

====
